---------------------------- MODULE Spec2Model ----------------------------
(***************************************************************************)
(* Model of StraddleShiftInput (SShiftuserinputstreamlit.py): one page run *)
(* of run() is the sequence _client_input, form, _save_section,            *)
(* _current_doc_section.  The record store is a MongoDB collection per     *)
(* client id, the audit log is a worksheet of rows.                        *)
(*                                                                         *)
(* Times of day are seconds since midnight.  A Python dict-or-None is a    *)
(* set holding at most one record.  Every read of the wall clock returns a *)
(* value larger than the previous read.  An exception that no handler of   *)
(* the class catches leaves run() and ends the page run (uncaught).        *)
(***************************************************************************)
EXTENDS Integers, Sequences, FiniteSets, TLC

VARIABLES
    store,           \* client id -> collection (sequence of documents)
    ws,              \* worksheet: sequence of rows, each a sequence of text
    form_submitted,  \* st.session_state["_form_submitted"]
    now,             \* last value the wall clock returned
    pc,              \* position of the page run inside run()
    client_id,       \* run(): client_id
    existing,        \* run(): existing (dict or None)
    ui_values,       \* run(): ui_values (dict or None before the form)
    StartTime,       \* run(): StartTime
    EndTime,         \* run(): EndTime
    page,            \* what the page run has rendered so far
    calls,           \* calls the page run made to the store and the sheet
    uncaught,        \* exception that left run(), "" when none
    attempts,        \* number of form submissions so far
    upserts,         \* number of upserts that succeeded so far
    audit_failed,    \* number of saves whose audit append raised
    lastSaved,       \* client id -> the submission of its last successful save
    lookup_t,        \* argument handed to _time_to_index
    lookup_idx       \* its return value, None before the call

vars == <<store, ws, form_submitted, now, pc, client_id, existing, ui_values,
          StartTime, EndTime, page, calls, uncaught, attempts, upserts,
          audit_failed, lastSaved, lookup_t, lookup_idx>>

runVars == <<store, ws, form_submitted, now, pc, client_id, existing,
             ui_values, StartTime, EndTime, page, calls, uncaught, attempts,
             upserts, audit_failed, lastSaved>>

-----------------------------------------------------------------------------
(* Bounds *)

MaxSaves == 2          \* form submissions in one behaviour
LookupMargin == 90     \* seconds outside [MIN_T, MAX_T] given to the lookup

-----------------------------------------------------------------------------
(* Time/Display constants *)

Time(hh, mm, ss) == hh * 3600 + mm * 60 + ss

MIN_T == Time(9, 15, 0)
MAX_T == Time(15, 30, 0)
DEFAULT_START == Time(9, 15, 0)
DEFAULT_END == Time(15, 15, 0)

STRATEGY_ID == "CST0005"

None == {}
Some(v) == {v}
The(opt) == CHOOSE v \in opt : TRUE

-----------------------------------------------------------------------------
(* Time utils *)

Pad2(n) == IF n < 10 THEN "0" \o ToString(n) ELSE ToString(n)

\* t.strftime("%H:%M:%S")
fmt_hms(t) ==
    Pad2(t \div 3600) \o ":" \o Pad2((t % 3600) \div 60) \o ":" \o Pad2(t % 60)

\* times = min_t, min_t + 1 minute, ... while <= max_t; labels = their text
build_time_options(min_t, max_t) ==
    LET n == IF min_t > max_t THEN 0 ELSE (max_t - min_t) \div 60 + 1
        times == [i \in 1..n |-> min_t + 60 * (i - 1)]
    IN  [times |-> times, labels |-> [i \in 1..n |-> fmt_hms(times[i])]]

allowed_times == build_time_options(MIN_T, MAX_T).times
allowed_labels == build_time_options(MIN_T, MAX_T).labels

\* variant: the difference without abs()
seconds_between_signed(a, b) == a - b

\* abs((d0 - d1).total_seconds()) of two times on the same date
seconds_between(a, b) == IF a >= b THEN a - b ELSE b - a

\* min(range(n), key=...): the first position lo..hi whose key is smallest.
\* min keeps the earlier of two equal keys; scanning the two halves and
\* keeping the left winner on a tie visits the positions in the same order.
RECURSIVE MinIndexIn(_, _, _, _)
MinIndexIn(times, t, lo, hi) ==
    IF lo = hi THEN lo
    ELSE LET mid == (lo + hi) \div 2
             a == MinIndexIn(times, t, lo, mid)
             b == MinIndexIn(times, t, mid + 1, hi)
         IN  IF seconds_between(times[b], t) < seconds_between(times[a], t)
             THEN b ELSE a

\* list.index(t): first 0-based position of t (caller checks membership)
ListIndex(seq, v) ==
    (CHOOSE i \in 1..Len(seq) :
        seq[i] = v /\ \A j \in 1..(i - 1) : seq[j] # v) - 1

time_to_index(t) ==
    IF \E i \in 1..Len(allowed_times) : allowed_times[i] = t
    THEN ListIndex(allowed_times, t)
    ELSE MinIndexIn(allowed_times, t, 1, Len(allowed_times)) - 1

\* str.split(sep): the pieces of s between occurrences of the one-char sep
RECURSIVE SplitFrom(_, _, _, _)
SplitFrom(s, sep, i, start) ==
    IF i > Len(s) THEN <<SubSeq(s, start, Len(s))>>
    ELSE IF SubSeq(s, i, i) = sep
         THEN <<SubSeq(s, start, i - 1)>> \o SplitFrom(s, sep, i + 1, i + 1)
         ELSE SplitFrom(s, sep, i + 1, start)

Split(s, sep) == SplitFrom(s, sep, 1, 1)

Digits == <<"0", "1", "2", "3", "4", "5", "6", "7", "8", "9">>

IsDigit(c) == \E d \in 1..10 : Digits[d] = c

DigitVal(c) == (CHOOSE d \in 1..10 : Digits[d] = c) - 1

RECURSIVE DigitsVal(_, _)
DigitsVal(s, acc) ==
    IF Len(s) = 0 THEN acc
    ELSE DigitsVal(Tail(s), 10 * acc + DigitVal(Head(s)))

\* int(s) of a text: None stands for ValueError.  Decimal digits with an
\* optional sign; surrounding blanks and "_" separators are not modelled.
PyInt(s) ==
    LET signed == Len(s) > 0 /\ Head(s) \in {"+", "-"}
        body == IF signed THEN Tail(s) ELSE s
    IN  IF Len(body) = 0 \/ \E i \in 1..Len(body) : ~IsDigit(SubSeq(body, i, i))
        THEN None
        ELSE Some(IF signed /\ Head(s) = "-"
                  THEN 0 - DigitsVal(body, 0) ELSE DigitsVal(body, 0))

parse_time_hms(s, default_t) ==
    LET parts == Split(s, ":")
    IN  IF Len(parts) < 2 THEN default_t
        ELSE LET ss == IF Len(parts) > 2 THEN PyInt(parts[3]) ELSE Some(0)
                 hh == PyInt(parts[1])
                 mm == PyInt(parts[2])
             IN  IF ss = None \/ hh = None \/ mm = None THEN default_t
                 ELSE IF /\ The(hh) \in 0..23
                         /\ The(mm) \in 0..59
                         /\ The(ss) \in 0..59
                      THEN Time(The(hh), The(mm), The(ss))
                      ELSE default_t

\* dict.get(key, default)
Get(d, key, default) == IF key \in DOMAIN d THEN d[key] ELSE default

clamp_and_parse_time(ex, key, fallback) ==
    LET t0 == IF ex # None /\ key \in DOMAIN The(ex)
              THEN parse_time_hms(The(ex)[key], fallback)
              ELSE fallback
        t1 == IF t0 < MIN_T THEN MIN_T ELSE t0
    IN  IF t1 > MAX_T THEN MAX_T ELSE t1

-----------------------------------------------------------------------------
(* Prefill helpers.  The documents of the model hold booleans under the    *)
(* flag keys, integers under the quantity keys and text under Symbol, so   *)
(* bool(), int() and str() of a stored value return that value.            *)

pre_bool(ex, key, default) ==
    IF ex = None THEN default ELSE Get(The(ex), key, default)

pre_int(ex, key, default) ==
    IF ex = None THEN default ELSE Get(The(ex), key, default)

pre_str(ex, key, default) ==
    IF ex = None THEN default ELSE Get(The(ex), key, default)

-----------------------------------------------------------------------------
(* Mongo access *)

\* None for an empty db_name, else the collection handle (the db name)
get_collection(db_name) == IF db_name = "" THEN None ELSE Some(db_name)

\* positions of the documents of col that match {"StrategyID": STRATEGY_ID}
Matches(col) == {i \in 1..Len(col) : col[i].StrategyID = STRATEGY_ID}

FirstMatch(col) == CHOOSE i \in Matches(col) : \A j \in Matches(col) : i <= j

\* col.find_one({"StrategyID": STRATEGY_ID})
find_one(col) == IF Matches(col) = {} THEN None ELSE Some(col[FirstMatch(col)])

\* $set / document construction: the keys of b override those of a
Merge(a, b) ==
    [k \in DOMAIN a \cup DOMAIN b |-> IF k \in DOMAIN b THEN b[k] ELSE a[k]]

\* variant: an insert_one in place of the upsert
find_one_and_update_insert(col, doc, ins) ==
    LET inserted == Merge(Merge([StrategyID |-> STRATEGY_ID], ins), doc)
    IN  [col |-> Append(col, inserted), result |-> Some(inserted)]

\* variant: created_at under $set instead of $setOnInsert
find_one_and_update_created(col, doc, ins) ==
    IF Matches(col) = {}
    THEN LET inserted == Merge(Merge([StrategyID |-> STRATEGY_ID], ins), doc)
         IN  [col |-> Append(col, inserted), result |-> Some(inserted)]
    ELSE LET i == FirstMatch(col)
             updated == Merge(col[i], Merge(ins, doc))
         IN  [col |-> [col EXCEPT ![i] = updated], result |-> Some(updated)]

\* col.find_one_and_update(filter, {"$set": doc, "$setOnInsert": ins},
\*                         upsert=True, return_document=AFTER)
find_one_and_update(col, doc, ins) ==
    IF Matches(col) = {}
    THEN LET inserted == Merge(Merge([StrategyID |-> STRATEGY_ID], ins), doc)
         IN  [col |-> Append(col, inserted), result |-> Some(inserted)]
    ELSE LET i == FirstMatch(col)
             updated == Merge(col[i], doc)
         IN  [col |-> [col EXCEPT ![i] = updated], result |-> Some(updated)]

load_existing(db_name) ==
    IF get_collection(db_name) = None THEN None ELSE find_one(store[db_name])

\* the collections after _upsert_strategy(db_name, doc) and its return value
upsert_strategy(db_name, doc, created_at) ==
    IF get_collection(db_name) = None
    THEN [store |-> store, result |-> None]
    ELSE LET r == find_one_and_update(store[db_name], doc,
                                      [created_at |-> created_at])
         IN  [store |-> [store EXCEPT ![db_name] = r.col], result |-> r.result]

-----------------------------------------------------------------------------
(* Google Sheet helpers *)

header ==
    <<"SavedAt_IST", "SavedAt_UTC", "ClientID", "StrategyID",
      "Start", "Pause", "Stop", "CallEntry", "PutEntry", "ShiftHedge",
      "FirstEntry", "ShiftPoints", "HedgePoints", "OTMPoints",
      "Symbol", "ExpiryNo", "OrderLot", "StartTime", "EndTime">>

\* str(bool)
StrBool(b) == IF b THEN "True" ELSE "False"

\* clock value rendered as text (strftime of the timestamp)
fmt_stamp(t) == ToString(t)

\* ws.acell("A1").value; "" for an empty cell
acell_A1(sheet) ==
    IF Len(sheet) = 0 \/ Len(sheet[1]) = 0 THEN "" ELSE sheet[1][1]

\* variant: the row goes in above the existing rows
append_row_front(sheet, row) == <<row>> \o sheet

\* ws.append_row(row)
append_row(sheet, row) == Append(sheet, row)

\* the row _append_to_gsheet builds
gsheet_row(ist_now, utc_now, cid, doc) ==
    <<fmt_stamp(ist_now), fmt_stamp(utc_now), cid,
      Get(doc, "StrategyID", ""),
      StrBool(Get(doc, "Start", FALSE)),
      StrBool(Get(doc, "Pause", FALSE)),
      StrBool(Get(doc, "Stop", FALSE)),
      StrBool(Get(doc, "CallEntry", FALSE)),
      StrBool(Get(doc, "PutEntry", FALSE)),
      StrBool(Get(doc, "ShiftHedge", FALSE)),
      StrBool(Get(doc, "FirstEntry", FALSE)),
      ToString(Get(doc, "ShiftPoints", 0)),
      ToString(Get(doc, "HedgePoints", 0)),
      ToString(Get(doc, "OTMPoints", 0)),
      Get(doc, "Symbol", ""),
      ToString(Get(doc, "ExpiryNo", 0)),
      ToString(Get(doc, "OrderLot", 0)),
      Get(doc, "StartTime", ""),
      Get(doc, "EndTime", "")>>

Call(op, ok) == [op |-> op, ok |-> ok]

\* _ensure_gsheet_header: a failed read of A1 counts as an empty A1.
\* raised: append_row raised (the exception leaves the function)
ensure_gsheet_header(sheet, a1_ok, hdr_ok) ==
    LET a1 == IF a1_ok THEN acell_A1(sheet) ELSE ""
        read == <<Call("acell", a1_ok)>>
    IN  IF a1 = ""
        THEN [ws |-> IF hdr_ok THEN append_row(sheet, header) ELSE sheet,
              calls |-> read \o <<Call("append_row", hdr_ok)>>,
              raised |-> ~hdr_ok]
        ELSE [ws |-> sheet, calls |-> read, raised |-> FALSE]

\* _append_to_gsheet(client_id, doc) with the two clock values it read
append_to_gsheet(sheet, cid, doc, ist_now, utc_now, a1_ok, hdr_ok, row_ok) ==
    LET h == ensure_gsheet_header(sheet, a1_ok, hdr_ok)
        row == gsheet_row(ist_now, utc_now, cid, doc)
    IN  IF h.raised THEN h
        ELSE [ws |-> IF row_ok THEN append_row(h.ws, row) ELSE h.ws,
              calls |-> h.calls \o <<Call("append_row", row_ok)>>,
              raised |-> ~row_ok]

-----------------------------------------------------------------------------
(* Inputs *)

ClientIds == {"", "CL001", "CL002"}
Clients == ClientIds \ {""}

\* what the operator leaves in the form: the controls and the two labels
BaseSubmission ==
    [Start |-> TRUE, Pause |-> FALSE, Stop |-> FALSE, CallEntry |-> TRUE,
     PutEntry |-> FALSE, ShiftHedge |-> FALSE, FirstEntry |-> FALSE,
     OTMPoints |-> 50, HedgePoints |-> 20, ShiftPoints |-> 10,
     Symbol |-> "NIFTY", ExpiryNo |-> 0, OrderLot |-> 1,
     StartTimeLabel |-> "09:15:00", EndTimeLabel |-> "15:15:00"]

AltSubmission ==
    [Start |-> FALSE, Pause |-> TRUE, Stop |-> TRUE, CallEntry |-> FALSE,
     PutEntry |-> TRUE, ShiftHedge |-> TRUE, FirstEntry |-> TRUE,
     OTMPoints |-> 0, HedgePoints |-> 0, ShiftPoints |-> 0,
     Symbol |-> "", ExpiryNo |-> 1, OrderLot |-> 2,
     StartTimeLabel |-> "15:30:00", EndTimeLabel |-> "15:30:00"]

\* values the number widgets would refuse are included: _save_section
\* validates whatever ui_values it is handed
BadSubmissions ==
    {[BaseSubmission EXCEPT !.ShiftPoints = -1],
     [BaseSubmission EXCEPT !.HedgePoints = -1, !.OTMPoints = -1,
                            !.ExpiryNo = -1],
     [BaseSubmission EXCEPT !.OrderLot = 0],
     [BaseSubmission EXCEPT !.StartTimeLabel = "15:15:00",
                            !.EndTimeLabel = "09:15:00"],
     [BaseSubmission EXCEPT !.ShiftPoints = -1, !.HedgePoints = -1,
                            !.OTMPoints = -1, !.ExpiryNo = -1,
                            !.OrderLot = 0,
                            !.StartTimeLabel = "09:16:00",
                            !.EndTimeLabel = "09:15:00"]}

Submissions == {BaseSubmission, AltSubmission} \cup BadSubmissions

ControlKeys ==
    {"Start", "Pause", "Stop", "CallEntry", "PutEntry", "ShiftHedge",
     "FirstEntry", "OTMPoints", "HedgePoints", "ShiftPoints", "Symbol",
     "ExpiryNo", "OrderLot"}

-----------------------------------------------------------------------------
(* UI sections *)

\* the widget defaults _controls_section computes from existing
controls_prefill(ex) ==
    [Start |-> pre_bool(ex, "Start", FALSE),
     Pause |-> pre_bool(ex, "Pause", FALSE),
     Stop |-> pre_bool(ex, "Stop", FALSE),
     CallEntry |-> pre_bool(ex, "CallEntry", FALSE),
     PutEntry |-> pre_bool(ex, "PutEntry", FALSE),
     ShiftHedge |-> pre_bool(ex, "ShiftHedge", FALSE),
     FirstEntry |-> pre_bool(ex, "FirstEntry", FALSE),
     OTMPoints |-> pre_int(ex, "OTMPoints", 0),
     HedgePoints |-> pre_int(ex, "HedgePoints", 0),
     ShiftPoints |-> pre_int(ex, "ShiftPoints", 0),
     Symbol |-> pre_str(ex, "Symbol", ""),
     ExpiryNo |-> pre_int(ex, "ExpiryNo", 0),
     OrderLot |-> pre_int(ex, "OrderLot", 1)]

\* the labels the two select boxes show before the operator touches them
timing_prefill(ex) ==
    LET pre_start_t == clamp_and_parse_time(ex, "StartTime", DEFAULT_START)
        pre_end_t == clamp_and_parse_time(ex, "EndTime", DEFAULT_END)
    IN  [StartTimeLabel |-> allowed_labels[time_to_index(pre_start_t) + 1],
         EndTimeLabel |-> allowed_labels[time_to_index(pre_end_t) + 1]]

\* the untouched form
Prefilled(ex) == Merge(controls_prefill(ex), timing_prefill(ex))

\* the dict _controls_section returns
controls_section(sub) == [k \in ControlKeys |-> sub[k]]

\* allowed_times[allowed_labels.index(label)]
timing_section(label) == allowed_times[ListIndex(allowed_labels, label) + 1]

-----------------------------------------------------------------------------
(* Validation and document construction of _save_section *)

IdentityMsg == "client_id (DB name) enter kijiye."
ErrShiftPoints == "ShiftPoints must be a non-negative integer."
ErrHedgePoints == "HedgePoints must be a non-negative integer."
ErrOTMPoints == "OTMPoints must be a non-negative integer."
ErrExpiryNo == "ExpiryNo must be a non-negative integer."
ErrOrderLot == "OrderLot must be an integer >= 1."
ErrWindow == "StartTime must be <= EndTime"
StoreErrMsg == "Could not open the database for this client_id."
SuccessMsg == "Save Inputs."
SheetWarnMsg == "Error in Google Sheet"
NoDocMsg == "No document yet for this DB and StrategyID."

When(cond, msg) == IF cond THEN <<msg>> ELSE <<>>

\* variant: OrderLot compared with 0
validate_lot0(ui, st_t, en_t) ==
    When(ui.ShiftPoints < 0, ErrShiftPoints)
    \o When(ui.HedgePoints < 0, ErrHedgePoints)
    \o When(ui.OTMPoints < 0, ErrOTMPoints)
    \o When(ui.ExpiryNo < 0, ErrExpiryNo)
    \o When(ui.OrderLot < 0, ErrOrderLot)
    \o When(st_t > en_t, ErrWindow)

\* variant: no check of the window
validate_no_window(ui, st_t, en_t) ==
    When(ui.ShiftPoints < 0, ErrShiftPoints)
    \o When(ui.HedgePoints < 0, ErrHedgePoints)
    \o When(ui.OTMPoints < 0, ErrOTMPoints)
    \o When(ui.ExpiryNo < 0, ErrExpiryNo)
    \o When(ui.OrderLot < 1, ErrOrderLot)

\* the list errors; every quantity of the model is an int
validate(ui, st_t, en_t) ==
    When(ui.ShiftPoints < 0, ErrShiftPoints)
    \o When(ui.HedgePoints < 0, ErrHedgePoints)
    \o When(ui.OTMPoints < 0, ErrOTMPoints)
    \o When(ui.ExpiryNo < 0, ErrExpiryNo)
    \o When(ui.OrderLot < 1, ErrOrderLot)
    \o When(st_t > en_t, ErrWindow)

build_doc(ui, st_t, en_t, updated_at) ==
    [StrategyID |-> STRATEGY_ID,
     Start |-> ui.Start, Pause |-> ui.Pause, Stop |-> ui.Stop,
     ShiftHedge |-> ui.ShiftHedge, CallEntry |-> ui.CallEntry,
     PutEntry |-> ui.PutEntry, FirstEntry |-> Get(ui, "FirstEntry", FALSE),
     ShiftPoints |-> ui.ShiftPoints, HedgePoints |-> ui.HedgePoints,
     OTMPoints |-> ui.OTMPoints, Symbol |-> ui.Symbol,
     ExpiryNo |-> ui.ExpiryNo, OrderLot |-> ui.OrderLot,
     StartTime |-> fmt_hms(st_t), EndTime |-> fmt_hms(en_t),
     updated_at |-> updated_at]

\* variant: the fields are validated before the client id is looked at
save_rejection_fields_first(cid, ui, st_t, en_t) ==
    IF validate_no_window(ui, st_t, en_t) # <<>>
    THEN validate_no_window(ui, st_t, en_t)
    ELSE IF cid = "" THEN <<IdentityMsg>> ELSE When(st_t > en_t, ErrWindow)

\* the messages of the early returns of _save_section: the identity check
\* comes first and ends the save before any field is looked at
save_rejection(cid, ui, st_t, en_t) ==
    IF cid = "" THEN <<IdentityMsg>> ELSE validate(ui, st_t, en_t)

Error(text) == [kind |-> "error", text |-> text]
Success(text) == [kind |-> "success", text |-> text]
Warning(text) == [kind |-> "warning", text |-> text]
Json(label, doc) == [kind |-> "json", label |-> label, doc |-> doc]

Errors(msgs) == [i \in 1..Len(msgs) |-> Error(msgs[i])]

\* variant: the flag is left as the form set it
reset_flag_kept(flag) == flag

\* st.session_state["_form_submitted"] = False, the first statement of
\* _save_section after the check of the flag
reset_flag(flag) == FALSE

\* variant: the except branch returns before the document is shown
saved_render_return(result, sheet_raised) ==
    IF sheet_raised
    THEN <<Success(SuccessMsg), Warning(SheetWarnMsg)>>
    ELSE <<Success(SuccessMsg), Json("Saved Document", result)>>

\* what _save_section renders once the upsert returned result: the success
\* line, the warning of the except branch, the saved document
saved_render(result, sheet_raised) ==
    <<Success(SuccessMsg)>>
    \o When(sheet_raised, Warning(SheetWarnMsg))
    \o <<Json("Saved Document", result)>>

-----------------------------------------------------------------------------
(* State after construction *)

\* a document of another strategy that the collection of CL002 already holds
ForeignDoc == [StrategyID |-> "OTHER", Start |-> TRUE]

InitRun ==
    /\ store = [c \in Clients |-> IF c = "CL002" THEN <<ForeignDoc>> ELSE <<>>]
    /\ ws = <<>>
    /\ form_submitted = FALSE
    /\ now = 0
    /\ pc = "idle"
    /\ client_id = ""
    /\ existing = None
    /\ ui_values = None
    /\ StartTime = DEFAULT_START
    /\ EndTime = DEFAULT_END
    /\ page = <<>>
    /\ calls = <<>>
    /\ uncaught = ""
    /\ attempts = 0
    /\ upserts = 0
    /\ audit_failed = 0
    /\ lastSaved = [c \in Clients |-> None]

Init ==
    /\ InitRun
    /\ lookup_t = MIN_T
    /\ lookup_idx = None

\* the locals of run() after it returned or raised
EndRun ==
    /\ pc' = "idle"
    /\ client_id' = ""
    /\ existing' = None
    /\ ui_values' = None
    /\ StartTime' = DEFAULT_START
    /\ EndTime' = DEFAULT_END

-----------------------------------------------------------------------------
(* run() *)

\* _client_input: the operator's client id; a non-empty one is looked up
ClientInput(cid, read_ok) ==
    /\ pc = "idle"
    /\ page' = <<>>
    /\ UNCHANGED <<store, ws, form_submitted, now, ui_values, StartTime,
                   EndTime, attempts, upserts, audit_failed, lastSaved,
                   lookup_t, lookup_idx>>
    /\ IF cid = ""
       THEN /\ client_id' = cid
            /\ existing' = None
            /\ calls' = <<>>
            /\ uncaught' = ""
            /\ pc' = "form"
       ELSE IF read_ok
       THEN /\ client_id' = cid
            /\ existing' = load_existing(cid)
            /\ calls' = <<Call("find_one", TRUE)>>
            /\ uncaught' = ""
            /\ pc' = "form"
       ELSE /\ client_id' = ""
            /\ existing' = None
            /\ calls' = <<Call("find_one", FALSE)>>
            /\ uncaught' = "PyMongoError"
            /\ pc' = "idle"

\* the form: _controls_section, _timing_section and the submit button
Form(sub, submit) ==
    /\ pc = "form"
    /\ submit => attempts < MaxSaves
    /\ ui_values' = Some(controls_section(sub))
    /\ StartTime' = timing_section(sub.StartTimeLabel)
    /\ EndTime' = timing_section(sub.EndTimeLabel)
    /\ form_submitted' = IF submit THEN TRUE ELSE form_submitted
    /\ attempts' = IF submit THEN attempts + 1 ELSE attempts
    /\ pc' = "save"
    /\ UNCHANGED <<store, ws, now, client_id, existing, page, calls, uncaught,
                   upserts, audit_failed, lastSaved, lookup_t, lookup_idx>>

\* _save_section.  upsert_ok: find_one_and_update returns (else it raises);
\* a1_ok, hdr_ok, row_ok: the read of A1 and the two append_row calls return
SaveSection(upsert_ok, a1_ok, hdr_ok, row_ok) ==
    /\ pc = "save"
    /\ UNCHANGED <<attempts, lookup_t, lookup_idx>>
    /\ IF ~form_submitted
       THEN UNCHANGED <<store, ws, form_submitted, now, client_id, existing,
                        ui_values, StartTime, EndTime, page, calls, uncaught,
                        upserts, audit_failed, lastSaved>>
            /\ pc' = "current"
       ELSE
       /\ form_submitted' = reset_flag(form_submitted)
       /\ LET ui == The(ui_values)
              rejected == save_rejection(client_id, ui, StartTime, EndTime)
          IN
          IF rejected # <<>>
          THEN /\ page' = page \o Errors(rejected)
               /\ pc' = "current"
               /\ UNCHANGED <<store, ws, now, client_id, existing, ui_values,
                              StartTime, EndTime, calls, uncaught, upserts,
                              audit_failed, lastSaved>>
          ELSE
          LET doc == build_doc(ui, StartTime, EndTime, now + 1)
              up == upsert_strategy(client_id, doc, now + 2)
              touched == get_collection(client_id) # None
          IN
          IF touched /\ ~upsert_ok
          THEN \* the exception of find_one_and_update leaves run()
               /\ calls' = Append(calls, Call("find_one_and_update", FALSE))
               /\ uncaught' = "PyMongoError"
               /\ now' = now + 2
               /\ EndRun
               /\ UNCHANGED <<store, ws, page, upserts, audit_failed,
                              lastSaved>>
          ELSE IF up.result = None
          THEN /\ page' = Append(page, Error(StoreErrMsg))
               /\ now' = now + 1
               /\ pc' = "current"
               /\ UNCHANGED <<store, ws, client_id, existing, ui_values,
                              StartTime, EndTime, calls, uncaught, upserts,
                              audit_failed, lastSaved>>
          ELSE
          LET au == append_to_gsheet(ws, client_id, doc, now + 3, now + 4,
                                     a1_ok, hdr_ok, row_ok)
          IN
          /\ store' = up.store
          /\ upserts' = upserts + 1
          /\ lastSaved' = [lastSaved EXCEPT ![client_id] =
                  Some([ui |-> ui, StartTime |-> StartTime,
                        EndTime |-> EndTime])]
          /\ ws' = au.ws
          /\ audit_failed' = IF au.raised THEN audit_failed + 1
                             ELSE audit_failed
          /\ calls' = Append(calls, Call("find_one_and_update", TRUE))
                      \o au.calls
          /\ page' = page \o saved_render(The(up.result), au.raised)
          /\ now' = now + 4
          /\ pc' = "current"
          /\ UNCHANGED <<client_id, existing, ui_values, StartTime, EndTime,
                         uncaught>>

\* _current_doc_section, the last step of run()
CurrentDocSection(read_ok) ==
    /\ pc = "current"
    /\ EndRun
    /\ UNCHANGED <<store, ws, form_submitted, now, attempts, upserts,
                   audit_failed, lastSaved, lookup_t, lookup_idx>>
    /\ IF client_id = ""
       THEN UNCHANGED <<page, calls, uncaught>>
       ELSE IF read_ok
       THEN LET current == load_existing(client_id)
            IN  /\ calls' = Append(calls, Call("find_one", TRUE))
                /\ page' = Append(page,
                       IF current # None
                       THEN Json("Current Document", The(current))
                       ELSE Warning(NoDocMsg))
                /\ uncaught' = ""
       ELSE /\ calls' = Append(calls, Call("find_one", FALSE))
            /\ uncaught' = "PyMongoError"
            /\ UNCHANGED page

\* which of the external calls of one _save_section return: a later call is
\* only made when the earlier ones returned
AllReturn == [upsert_ok |-> TRUE, a1_ok |-> TRUE, hdr_ok |-> TRUE,
              row_ok |-> TRUE]

Failures ==
    {AllReturn,
     [AllReturn EXCEPT !.upsert_ok = FALSE],
     [AllReturn EXCEPT !.a1_ok = FALSE],
     [AllReturn EXCEPT !.hdr_ok = FALSE],
     [AllReturn EXCEPT !.row_ok = FALSE],
     [AllReturn EXCEPT !.a1_ok = FALSE, !.hdr_ok = FALSE],
     [AllReturn EXCEPT !.a1_ok = FALSE, !.row_ok = FALSE]}

Next ==
    \/ \E cid \in ClientIds, read_ok \in BOOLEAN : ClientInput(cid, read_ok)
    \/ \E sub \in Submissions \cup {Prefilled(existing)} : Form(sub, TRUE)
    \/ Form(Prefilled(existing), FALSE)
    \/ \E f \in Failures :
          SaveSection(f.upsert_ok, f.a1_ok, f.hdr_ok, f.row_ok)
    \/ \E read_ok \in BOOLEAN : CurrentDocSection(read_ok)

Spec == Init /\ [][Next]_vars

-----------------------------------------------------------------------------
(* _time_to_index on its own: any time of day near the trading window *)

LookupInputs == (MIN_T - LookupMargin)..(MAX_T + LookupMargin)

InitGrid ==
    /\ InitRun
    /\ lookup_t \in LookupInputs
    /\ lookup_idx = None

TimeToIndex ==
    /\ lookup_idx = None
    /\ lookup_idx' = Some(time_to_index(lookup_t))
    /\ UNCHANGED lookup_t
    /\ UNCHANGED runVars

NextGrid == TimeToIndex

SpecGrid == InitGrid /\ [][NextGrid]_vars

TypeOK ==
    /\ pc \in {"idle", "form", "save", "current"}
    /\ form_submitted \in BOOLEAN
    /\ client_id \in ClientIds
    /\ attempts \in 0..MaxSaves
    /\ lookup_idx \subseteq 0..(Len(allowed_times) - 1)

-----------------------------------------------------------------------------
(* Properties *)

DataRows(sheet) == {i \in 1..Len(sheet) : sheet[i] # header}
HeaderRows(sheet) == {i \in 1..Len(sheet) : sheet[i] = header}

IsPrefix(a, b) == Len(a) <= Len(b) /\ SubSeq(b, 1, Len(a)) = a

Rendered(entry) == \E i \in 1..Len(page) : page[i] = entry
RenderedNext(entry) == \E i \in 1..Len(page') : page'[i] = entry

\* the calls this step added to the run's call list
NewCalls ==
    IF IsPrefix(calls, calls') THEN SubSeq(calls', Len(calls) + 1, Len(calls'))
    ELSE calls'

Made(seq, call) == \E i \in 1..Len(seq) : seq[i] = call

\* a step of _save_section that got past the submitted-flag check
SaveStep == pc = "save" /\ form_submitted

\* C1 (as claimed): the audit log holds exactly one data row for each save
\* whose record-store upsert succeeded.
C1_OneRowPerUpsert == Cardinality(DataRows(ws)) = upserts

\* C1 (amended): every step leaves the rows the audit log already had in
\* place and unchanged, and adds exactly one data row, after them, when it is
\* a save whose upsert succeeded and whose audit append did not raise; a save
\* whose audit append raised, and any other step, adds no data row.
C1_AuditAppendOnly ==
    [][/\ IsPrefix(ws, ws')
       /\ Cardinality(DataRows(ws')) - Cardinality(DataRows(ws))
            = (upserts' - upserts) - (audit_failed' - audit_failed)
       /\ Cardinality(DataRows(ws')) > Cardinality(DataRows(ws))
            => /\ SaveStep
               /\ ws'[Len(ws')][3] = client_id
               /\ RenderedNext(Success(SuccessMsg))
               /\ ~RenderedNext(Warning(SheetWarnMsg))]_vars

C1_Witness ==
    /\ upserts = 2
    /\ audit_failed = 1
    /\ Cardinality(DataRows(ws)) = 1
    /\ ws[Len(ws)] # header

\* C2: a client that has saved successfully holds exactly one document of
\* the fixed strategy, whose settable fields are those of its most recent
\* successful save; a client that never saved holds none.
C2_OneDocumentPerClient ==
    \A c \in Clients :
        IF lastSaved[c] = None THEN Matches(store[c]) = {}
        ELSE LET last == The(lastSaved[c])
                 doc == store[c][FirstMatch(store[c])]
             IN  /\ Cardinality(Matches(store[c])) = 1
                 /\ \A k \in ControlKeys : doc[k] = last.ui[k]
                 /\ doc.StartTime = fmt_hms(last.StartTime)
                 /\ doc.EndTime = fmt_hms(last.EndTime)

C2_Witness ==
    /\ upserts = 2
    /\ lastSaved["CL001"] = None
    /\ lastSaved["CL002"] # None
    /\ The(lastSaved["CL002"]).ui.OrderLot = 2
    /\ Len(store["CL002"]) = 2

\* C3: the save that inserts a client's document sets created_at, every
\* later step keeps that value, and every successful save sets updated_at to
\* a value larger than the one the document held before.
C3_Timestamps ==
    [][\A c \in Clients :
         LET old == find_one(store[c])
             new == find_one(store'[c])
             saved == SaveStep /\ client_id = c /\ upserts' = upserts + 1
         IN  /\ old # None =>
                   /\ new # None
                   /\ The(new).created_at = The(old).created_at
             /\ (old = None /\ new # None) =>
                   /\ saved
                   /\ The(new).created_at > now
             /\ saved =>
                   /\ new # None
                   /\ The(new).updated_at > now
                   /\ old # None => The(new).updated_at > The(old).updated_at
             /\ ~saved => store'[c] = store[c]]_vars

C3_Witness ==
    \E c \in Clients :
        /\ find_one(store[c]) # None
        /\ The(find_one(store[c])).updated_at
             > The(find_one(store[c])).created_at

\* the violation messages a submission calls for, by offending field
Violations(ui, st_t, en_t) ==
    {ErrShiftPoints : x \in {1} \cap (IF ui.ShiftPoints < 0 THEN {1} ELSE {})}
    \cup {ErrHedgePoints : x \in {1} \cap (IF ui.HedgePoints < 0 THEN {1} ELSE {})}
    \cup {ErrOTMPoints : x \in {1} \cap (IF ui.OTMPoints < 0 THEN {1} ELSE {})}
    \cup {ErrExpiryNo : x \in {1} \cap (IF ui.ExpiryNo < 0 THEN {1} ELSE {})}
    \cup {ErrOrderLot : x \in {1} \cap (IF ui.OrderLot < 1 THEN {1} ELSE {})}
    \cup {ErrWindow : x \in {1} \cap (IF st_t > en_t THEN {1} ELSE {})}

C6_AuditFailureNonFatal ==
    [][(SaveStep /\ Made(NewCalls, Call("find_one_and_update", TRUE))
        /\ (Made(NewCalls, Call("append_row", FALSE))))
       => LET doc == build_doc(The(ui_values), StartTime, EndTime, now + 1)
              stored == find_one(store'[client_id])
          IN  /\ stored # None
              /\ \A k \in DOMAIN doc : The(stored)[k] = doc[k]
              /\ page' = page \o <<Success(SuccessMsg),
                                   Warning(SheetWarnMsg),
                                   Json("Saved Document", The(stored))>>
              /\ uncaught' = ""
              /\ pc' = "current"
              /\ upserts' = upserts + 1]_vars

C6_Witness ==
    /\ pc = "idle"
    /\ Made(calls, Call("append_row", FALSE))
    /\ Rendered(Warning(SheetWarnMsg))
    /\ Rendered(Success(SuccessMsg))
    /\ \E c \in Clients :
          /\ find_one(store[c]) # None
          /\ Rendered(Json("Current Document", The(find_one(store[c]))))
          /\ Rendered(Json("Saved Document", The(find_one(store[c]))))

\* C7 (as claimed): when the record-store write fails the save ends with the
\* store error rendered to the caller and no exception, nothing is persisted
\* and no audit row is appended; the sheet is only called after the upsert
\* returned.
C7_StoreErrorExplicit ==
    [][/\ (SaveStep /\ Made(NewCalls, Call("find_one_and_update", FALSE))) =>
             /\ RenderedNext(Error(StoreErrMsg))
             /\ uncaught' = ""
             /\ store' = store
             /\ ws' = ws
       /\ \A i \in 1..Len(calls') :
             calls'[i].op \in {"acell", "append_row"} =>
                \E j \in 1..(i - 1) :
                    calls'[j] = Call("find_one_and_update", TRUE)]_vars

\* C8 (as claimed): the audit log never holds more than one header row, and
\* a log that holds a data row starts with the header.
C8_HeaderOnce ==
    /\ Cardinality(HeaderRows(ws)) <= 1
    /\ DataRows(ws) # {} => ws[1] = header

GridLabels == {allowed_labels[n] : n \in 1..Len(allowed_labels)}

\* C9: every document of the fixed strategy in the record store has a
\* StartTime and an EndTime that are labels of the time grid, the first not
\* after the second, non-negative OTMPoints, HedgePoints, ShiftPoints and
\* ExpiryNo, and an OrderLot of at least 1.
C9_StoredDocumentValid ==
    \A c \in Clients : \A i \in Matches(store[c]) :
        LET doc == store[c][i]
        IN  /\ doc.StartTime \in GridLabels
            /\ doc.EndTime \in GridLabels
            /\ parse_time_hms(doc.StartTime, MAX_T + 1)
                 <= parse_time_hms(doc.EndTime, MIN_T - 1)
            /\ doc.OTMPoints >= 0
            /\ doc.HedgePoints >= 0
            /\ doc.ShiftPoints >= 0
            /\ doc.ExpiryNo >= 0
            /\ doc.OrderLot >= 1

C9_Witness ==
    /\ attempts = 2
    /\ upserts = 1
    /\ pc = "current"
    /\ Rendered(Error(ErrWindow))
    /\ find_one(store[client_id]) # None
    /\ The(find_one(store[client_id])).StartTime = "15:30:00"
    /\ The(find_one(store[client_id])).EndTime = "15:30:00"

\* C10: the lookup of a grid member returns that member's index; the lookup
\* of any other time returns the index of a grid member at the least
\* distance in seconds, the earlier one when two are equally near.
C10_TimeToIndex ==
    lookup_idx # None =>
        LET idx == The(lookup_idx) + 1
            n == Len(allowed_times)
            dist(i) == seconds_between(allowed_times[i], lookup_t)
        IN  /\ idx \in 1..n
            /\ (\E i \in 1..n : allowed_times[i] = lookup_t)
                  => allowed_times[idx] = lookup_t
            /\ \A j \in 1..n :
                  /\ dist(idx) <= dist(j)
                  /\ dist(j) = dist(idx) => idx <= j

C10_Witness ==
    /\ lookup_t = Time(9, 15, 30)
    /\ lookup_idx = Some(0)

\* the calls that write: the upsert and the calls of the audit append
WriteOps == {"find_one_and_update", "acell", "append_row"}

\* C11: the submitted flag is set only by a form submission and is false
\* whenever the page run is not about to enter the save section; the save
\* section always leaves it false, also when the upsert raises; a save
\* section entered with the flag false renders nothing, reads no clock and
\* calls and changes neither the store nor the sheet; every step that writes
\* to the store or the sheet, or calls them to write, is a save section
\* entered with the flag set.
C11_OneSavePerSubmission ==
    [][/\ pc # "save" => ~form_submitted
       /\ pc' # "save" => ~form_submitted'
       /\ (form_submitted' /\ ~form_submitted) =>
             /\ pc = "form"
             /\ attempts' = attempts + 1
       /\ pc = "save" =>
             /\ ~form_submitted'
             /\ ~form_submitted =>
                   /\ store' = store
                   /\ ws' = ws
                   /\ calls' = calls
                   /\ page' = page
                   /\ now' = now
                   /\ upserts' = upserts
                   /\ uncaught' = uncaught
       /\ (\/ store' # store
           \/ ws' # ws
           \/ upserts' # upserts
           \/ \E i \in 1..Len(NewCalls) : NewCalls[i].op \in WriteOps)
          => SaveStep]_vars

\* a page run without a submission, after a save whose upsert raised, has
\* passed the save section without a call beyond the lookup
C11_Witness ==
    /\ pc = "current"
    /\ client_id # ""
    /\ ~form_submitted
    /\ attempts = 1
    /\ upserts = 0
    /\ now = 2
    /\ page = <<>>
    /\ calls = <<Call("find_one", TRUE)>>
    /\ ws = <<>>

=============================================================================
